---------------------------- MODULE Spec2Model ----------------------------
(***************************************************************************)
(* Event management application: the file-backed store (DataManager), the  *)
(* relational store behind the request handlers (routes.py + models.py)    *)
(* and the query functions of utils.py.                                    *)
(*                                                                         *)
(* Python strings are sequences of one-character strings, so that lower(), *)
(* strip(), split(), join(), substring tests and code-point comparison are *)
(* computed, not assumed.                                                  *)
(***************************************************************************)
EXTENDS Integers, Sequences, FiniteSets, TLC

(***************************************************************************)
(* Bounds of the model.                                                    *)
(***************************************************************************)
MaxIds == 2
MaxClock == 1
MaxUpdates == 1
MaxQuery == 3

(***************************************************************************)
(* Strings.                                                                *)
(***************************************************************************)
Digits == {"0", "1", "2", "3", "4", "5", "6", "7", "8", "9"}

DigitVal(c) ==
    CASE c = "0" -> 0 [] c = "1" -> 1 [] c = "2" -> 2 [] c = "3" -> 3
      [] c = "4" -> 4 [] c = "5" -> 5 [] c = "6" -> 6 [] c = "7" -> 7
      [] c = "8" -> 8 [] c = "9" -> 9

\* Code point of a character (the characters the model's strings use).
CharCode(c) ==
    CASE c = " " -> 32 [] c = "+" -> 43 [] c = "," -> 44 [] c = "-" -> 45
      [] c \in Digits -> 48 + DigitVal(c)
      [] c = ":" -> 58
      [] c = "A" -> 65 [] c = "B" -> 66 [] c = "T" -> 84 [] c = "W" -> 87
      [] c = "Z" -> 90
      [] c = "a" -> 97 [] c = "b" -> 98 [] c = "t" -> 116 [] c = "w" -> 119
      [] c = "z" -> 122

\* str.lower() on one character.
LowerCh(c) ==
    CASE c = "A" -> "a" [] c = "B" -> "b" [] c = "T" -> "t" [] c = "W" -> "w"
      [] c = "Z" -> "z" [] c = "D" -> "d" [] c = "E" -> "e" [] c = "S" -> "s"
      [] c = "C" -> "c" [] OTHER -> c

\* str.lower()
Lower(s) == [i \in 1..Len(s) |-> LowerCh(s[i])]

\* str.strip(): leading and trailing whitespace removed.
Strip(s) ==
    LET idx == {i \in 1..Len(s) : s[i] # " "}
    IN  IF idx = {} THEN <<>>
        ELSE LET lo == CHOOSE i \in idx : \A j \in idx : i <= j
                 hi == CHOOSE i \in idx : \A j \in idx : j <= i
             IN  SubSeq(s, lo, hi)

\* t in s (substring test)
IsSubstr(t, s) ==
    \E i \in 0..(Len(s) - Len(t)) : SubSeq(s, i + 1, i + Len(t)) = t

\* c in s for one character
HasChar(c, s) == \E i \in 1..Len(s) : s[i] = c

RECURSIVE Join(_, _)
\* sep.join(parts)
Join(sep, parts) ==
    IF parts = <<>> THEN <<>>
    ELSE IF Len(parts) = 1 THEN parts[1]
    ELSE parts[1] \o sep \o Join(sep, Tail(parts))

RECURSIVE Split(_, _)
\* s.split(c): the pieces between the occurrences of c; "".split(c) is [""].
Split(s, c) ==
    LET idx == {i \in 1..Len(s) : s[i] = c}
    IN  IF idx = {} THEN <<s>>
        ELSE LET k == CHOOSE i \in idx : \A j \in idx : i <= j
             IN  <<SubSeq(s, 1, k - 1)>> \o Split(SubSeq(s, k + 1, Len(s)), c)

RECURSIVE ReplaceZ(_)
\* s.replace('Z', '+00:00')
ReplaceZ(s) ==
    IF s = <<>> THEN <<>>
    ELSE (IF Head(s) = "Z" THEN <<"+", "0", "0", ":", "0", "0">> ELSE <<Head(s)>>)
         \o ReplaceZ(Tail(s))

\* Iterating a str yields its one-character strings.
CharsOf(s) == [i \in 1..Len(s) |-> <<s[i]>>]

RECURSIVE StrLess(_, _)
\* a < b for str: lexicographic by code point.
StrLess(a, b) ==
    IF b = <<>> THEN FALSE
    ELSE IF a = <<>> THEN TRUE
    ELSE IF CharCode(Head(a)) # CharCode(Head(b))
         THEN CharCode(Head(a)) < CharCode(Head(b))
    ELSE StrLess(Tail(a), Tail(b))

(***************************************************************************)
(* datetime parsing.  A datetime is [aware, day, sod]: the proleptic       *)
(* Gregorian ordinal of its day and the second of that day; an aware one   *)
(* is kept in UTC.  NoTime stands for the ValueError of a failed parse.    *)
(***************************************************************************)
NoTime == [ok |-> FALSE]

AllDigits(s, i, n) == \A k \in i..(i + n - 1) : s[k] \in Digits

RECURSIVE Num(_, _, _)
Num(s, i, n) == IF n = 0 THEN 0 ELSE Num(s, i, n - 1) * 10 + DigitVal(s[i + n - 1])

IsLeap(y) == (y % 4 = 0) /\ ((y % 100 # 0) \/ (y % 400 = 0))

DaysInMonth(y, m) ==
    CASE m \in {1, 3, 5, 7, 8, 10, 12} -> 31
      [] m \in {4, 6, 9, 11} -> 30
      [] m = 2 -> IF IsLeap(y) THEN 29 ELSE 28

RECURSIVE DaysBeforeMonth(_, _)
DaysBeforeMonth(y, m) ==
    IF m = 1 THEN 0 ELSE DaysBeforeMonth(y, m - 1) + DaysInMonth(y, m - 1)

DaysBeforeYear(y) ==
    (y - 1) * 365 + ((y - 1) \div 4) - ((y - 1) \div 100) + ((y - 1) \div 400)

Ordinal(y, m, d) == DaysBeforeYear(y) + DaysBeforeMonth(y, m) + d

\* "YYYY-MM-DD" at the head of s: its ordinal, or 0 when it is no date.
DateOrdinal(s) ==
    IF /\ Len(s) >= 10
       /\ AllDigits(s, 1, 4) /\ s[5] = "-" /\ AllDigits(s, 6, 2)
       /\ s[8] = "-" /\ AllDigits(s, 9, 2)
    THEN LET y == Num(s, 1, 4)
             m == Num(s, 6, 2)
             d == Num(s, 9, 2)
         IN  IF y >= 1 /\ m \in 1..12 /\ d >= 1 /\ d <= DaysInMonth(y, m)
             THEN Ordinal(y, m, d) ELSE 0
    ELSE 0

\* "HH:MM:SS" at s[i..i+7]: its second of the day, or -1.
TimeSeconds(s, i) ==
    IF /\ AllDigits(s, i, 2) /\ s[i + 2] = ":" /\ AllDigits(s, i + 3, 2)
       /\ s[i + 5] = ":" /\ AllDigits(s, i + 6, 2)
    THEN LET h == Num(s, i, 2)
             mi == Num(s, i + 3, 2)
             sec == Num(s, i + 6, 2)
         IN  IF h <= 23 /\ mi <= 59 /\ sec <= 59
             THEN h * 3600 + mi * 60 + sec ELSE -1
    ELSE -1

\* "+HH:MM" / "-HH:MM" at s[i..i+5]: the offset in seconds, or 90000.
OffsetSeconds(s, i) ==
    IF /\ s[i] \in {"+", "-"} /\ AllDigits(s, i + 1, 2) /\ s[i + 3] = ":"
       /\ AllDigits(s, i + 4, 2)
    THEN LET h == Num(s, i + 1, 2)
             mi == Num(s, i + 4, 2)
         IN  IF h <= 23 /\ mi <= 59
             THEN (IF s[i] = "-" THEN -1 ELSE 1) * (h * 3600 + mi * 60)
             ELSE 90000
    ELSE 90000

\* datetime.fromisoformat on the forms YYYY-MM-DD, YYYY-MM-DD?HH:MM:SS and
\* YYYY-MM-DD?HH:MM:SS+HH:MM (? is any one separator character); every
\* other string of the model's date strings is a ValueError.
FromIsoFormat(s) ==
    LET ord == DateOrdinal(s)
    IN  IF ord = 0 THEN NoTime
        ELSE IF Len(s) = 10
             THEN [ok |-> TRUE, aware |-> FALSE, day |-> ord, sod |-> 0]
        ELSE IF Len(s) = 19
             THEN LET t == TimeSeconds(s, 12)
                  IN  IF t < 0 THEN NoTime
                      ELSE [ok |-> TRUE, aware |-> FALSE, day |-> ord, sod |-> t]
        ELSE IF Len(s) = 25
             THEN LET t == TimeSeconds(s, 12)
                      off == OffsetSeconds(s, 20)
                  IN  IF t < 0 \/ off = 90000 THEN NoTime
                      ELSE LET u == t - off
                           IN  [ok |-> TRUE, aware |-> TRUE,
                                day |-> IF u < 0 THEN ord - 1
                                        ELSE IF u >= 86400 THEN ord + 1 ELSE ord,
                                sod |-> IF u < 0 THEN u + 86400
                                        ELSE IF u >= 86400 THEN u - 86400 ELSE u]
        ELSE NoTime

\* datetime.strptime(s, '%Y-%m-%d') on zero-padded input.
StrpDate(s) ==
    IF Len(s) = 10 /\ DateOrdinal(s) # 0
    THEN [ok |-> TRUE, aware |-> FALSE, day |-> DateOrdinal(s), sod |-> 0]
    ELSE NoTime

\* datetime.min
DatetimeMin == [ok |-> TRUE, aware |-> FALSE, day |-> 1, sod |-> 0]

\* a < b on datetimes of one kind (both naive or both aware).
TimeLess(a, b) == a.day < b.day \/ (a.day = b.day /\ a.sod < b.sod)


(***************************************************************************)
(* Python values shared by both variants.                                  *)
(***************************************************************************)
\* None where a str or a list is expected (no str holds a longer string).
None == <<"None">>

\* None in an integer attribute (an id, a timestamp): no id or time is negative.
NoneInt == 0 - 1

\* The str literals the code compares with.
StrAsc == <<"a", "s", "c">>
StrDesc == <<"d", "e", "s", "c">>

\* dict.get(key, default)
Get(d, key, default) == IF key \in DOMAIN d THEN d[key] ELSE default

\* list(reversed(s))
Reverse(s) == [i \in 1..Len(s) |-> s[Len(s) + 1 - i]]

\* The items of s that satisfy Keep, in order ([x for x in s if Keep(x)]).
RECURSIVE SelectIdx(_, _, _)
SelectIdx(s, keep, i) ==
    IF i > Len(s) THEN <<>>
    ELSE (IF i \in keep THEN <<s[i]>> ELSE <<>>) \o SelectIdx(s, keep, i + 1)

(***************************************************************************)
(* utils.py: the query functions over a list of file-store events.         *)
(***************************************************************************)
\* The text as a mutant would build it: the tags left out
SearchableTextNoTags(e) ==
    Join(<<" ">>, <<Lower(e.name), Lower(e.location), Lower(e.description), <<>>>>)

\* The text search_events looks into.
SearchableText(e) ==
    Join(<<" ">>, <<Lower(e.name), Lower(e.location), Lower(e.description),
                    Lower(Join(<<" ">>, e.tags))>>)

search_events(events, search_term) ==
    IF search_term = None \/ search_term = <<>> THEN events
    ELSE LET term == Strip(Lower(search_term))
         IN  SelectIdx(events,
                       {i \in 1..Len(events) : IsSubstr(term, SearchableText(events[i]))},
                       1)

filter_events(events, tag_filter) ==
    IF tag_filter = None \/ tag_filter = <<>> THEN events
    ELSE LET tag == Strip(Lower(tag_filter))
         IN  SelectIdx(events,
                       {i \in 1..Len(events) :
                           \E k \in 1..Len(events[i].tags) : Lower(events[i].tags[k]) = tag},
                       1)

parse_date_for_sorting(date_str) ==
    LET parsed == IF HasChar("T", date_str) THEN FromIsoFormat(ReplaceZ(date_str))
                  ELSE StrpDate(date_str)
    IN  IF parsed.ok THEN parsed ELSE DatetimeMin

NameLess(a, b) == StrLess(Lower(a.name), Lower(b.name))
LocationLess(a, b) == StrLess(Lower(a.location), Lower(b.location))
CreatedLess(a, b) == a.created_at < b.created_at
UpdatedLess(a, b) == a.updated_at < b.updated_at
DateLess(a, b) == TimeLess(parse_date_for_sorting(a.date), parse_date_for_sorting(b.date))

\* The order of the sort key that sort_events hands to sorted().
KeyLess(key, a, b) ==
    CASE key = "name" -> NameLess(a, b)
      [] key = "location" -> LocationLess(a, b)
      [] key = "created_at" -> CreatedLess(a, b)
      [] key = "updated_at" -> UpdatedLess(a, b)
      [] OTHER -> DateLess(a, b)

\* sorted(s, key=...): a stable sort.
StableSort(s, key) ==
    LET n == Len(s)
        pos(i) == 1 + Cardinality({j \in 1..n :
                         KeyLess(key, s[j], s[i])
                             \/ (~KeyLess(key, s[i], s[j]) /\ j < i)})
    IN  [p \in 1..n |-> s[CHOOSE i \in 1..n : pos(i) = p]]

\* sorted(s, key=..., reverse=reverse): with reverse=True items with equal
\* keys keep their original order too.
PySorted(s, key, reverse) ==
    IF reverse THEN Reverse(StableSort(Reverse(s), key)) ELSE StableSort(s, key)

\* Comparing an offset-naive with an offset-aware datetime raises TypeError;
\* sorted() compares every item with another one, so it raises exactly when
\* both kinds are among the keys.
DateSortRaises(events) ==
    \E i, j \in 1..Len(events) :
        parse_date_for_sorting(events[i].date).aware
            # parse_date_for_sorting(events[j].date).aware

sort_events(events, sort_by, sort_order) ==
    LET reverse == (Lower(sort_order) = StrDesc)
    IN  CASE sort_by \in {"name", "location", "created_at", "updated_at"} ->
                 PySorted(events, sort_by, reverse)
          [] OTHER -> IF DateSortRaises(events)
                      THEN PySorted(events, "name", reverse)
                      ELSE PySorted(events, "date", reverse)

(***************************************************************************)
(* The strings the requests of the model carry.                            *)
(***************************************************************************)
Empty == <<>>
NameA == <<"a">>
NameUpperA == <<"A">>
NameB == <<"b">>
LocW == <<"w">>
DescB == <<"b">>
TagT == <<"t">>
TagUpperT == <<"T">>
TagTA == <<"t", "a">>
Date2024 == <<"2", "0", "2", "4", "-", "0", "3", "-", "0", "1">>
Date2023 == <<"2", "0", "2", "3", "-", "0", "1", "-", "0", "1">>
DateTime2024 ==
    <<"2", "0", "2", "4", "-", "0", "1", "-", "0", "1", "T",
      "1", "0", ":", "0", "0", ":", "0", "0">>
DateZ2023 ==
    <<"2", "0", "2", "3", "-", "0", "6", "-", "0", "1", "T",
      "0", "0", ":", "0", "0", ":", "0", "0", "Z">>
NotADate == <<"a", "b">>

(***************************************************************************)
(* State.                                                                  *)
(***************************************************************************)
VARIABLES
    variant,    \* which persistence variant the process runs: "file" or "relational"
    now,        \* the clock datetime.utcnow() reads
    events,     \* DataManager.events: the dict, as its items in insertion order
    file,       \* the records last written to the data file
    nextUuid,   \* the next fresh id of the file store
    fsRet,      \* the last DataManager call and what it returned
    updates,    \* how many updates of a stored event were made (bounded)
    db,         \* the committed rows of the events table
    nextId,     \* the autoincrement counter of the events table
    relRet,     \* the last request of the relational variant and its response
    qEvents,    \* the list of events handed to the query functions
    qRet        \* the last query function call and its result

vars == <<variant, now, events, file, nextUuid, fsRet, updates, db, nextId, relRet, qEvents, qRet>>
fsVars == <<events, file, nextUuid, fsRet>>
relVars == <<db, nextId, relRet>>
qVars == <<qEvents, qRet>>

NoCall == [op |-> "none"]

(***************************************************************************)
(* The event of the file store.  DataManager builds it, validates it,      *)
(* updates it in place and serialises it; its class is the Event of section*)
(* 4.1 of the specification.                                               *)
(***************************************************************************)
FsNewEvent(id, name, date, location, description, tags, t) ==
    [id |-> id, name |-> name, date |-> date, location |-> location,
     description |-> description, tags |-> tags,
     created_at |-> t, updated_at |-> t]

FsNameMax == 100
LocationMax == 200
DescriptionMax == 1000

\* Event.validate of the file store: every check is evaluated, in order.
FsValidate(e) ==
    (IF Strip(e.name) = <<>> THEN <<"Event name is required">> ELSE <<>>)
    \o (IF Strip(e.date) = <<>> THEN <<"Event date is required">>
        ELSE IF ~FromIsoFormat(ReplaceZ(e.date)).ok THEN <<"Invalid date format">>
        ELSE <<>>)
    \o (IF Strip(e.location) = <<>> THEN <<"Event location is required">> ELSE <<>>)
    \o (IF Len(e.name) > FsNameMax
        THEN <<"Event name must be less than 100 characters">> ELSE <<>>)
    \o (IF Len(e.location) > LocationMax
        THEN <<"Location must be less than 200 characters">> ELSE <<>>)
    \o (IF Len(e.description) > DescriptionMax
        THEN <<"Description must be less than 1000 characters">> ELSE <<>>)

\* Event.update(**fields): the supplied keys overwrite, updated_at is refreshed.
FsEventUpdate(e, fields, t) ==
    [id |-> e.id,
     name |-> Get(fields, "name", e.name),
     date |-> Get(fields, "date", e.date),
     location |-> Get(fields, "location", e.location),
     description |-> Get(fields, "description", e.description),
     tags |-> Get(fields, "tags", e.tags),
     created_at |-> e.created_at,
     updated_at |-> t]

(***************************************************************************)
(* data_manager.py                                                         *)
(***************************************************************************)
\* event_id in self.events
FsHas(id) == \E i \in 1..Len(events) : events[i].id = id

FsIndex(id) == CHOOSE i \in 1..Len(events) : events[i].id = id

\* The fields update_event passes on: the five keys, when present.
UpdateFields(event_data) ==
    [k \in DOMAIN event_data \cap {"name", "date", "location", "description", "tags"}
        |-> event_data[k]]

\* The duplicate check of create_event.
CreateDuplicate(event) ==
    \E i \in 1..Len(events) : Lower(events[i].name) = Lower(event.name)

\* The duplicate check of update_event over the store evs.
UpdateDuplicate(evs, event_id, event) ==
    \E i \in 1..Len(evs) :
        evs[i].id # event_id /\ Lower(evs[i].name) = Lower(event.name)

\* save_events: the whole store is written when the write succeeds; a failed
\* write raises and leaves what was on disk.
Saved(evs, saveOk) == IF saveOk THEN evs ELSE file

FsCreateInputs ==
    << [name |-> NameA, date |-> Date2024, location |-> LocW, tags |-> <<TagT>>],
       [name |-> NameUpperA, date |-> Date2024, location |-> LocW, tags |-> <<TagT>>],
       [name |-> NameB, date |-> DateZ2023, location |-> LocW,
        tags |-> <<TagT, TagTA>>],
       [name |-> Empty, date |-> Date2024, location |-> LocW] >>

FsUpdateInputs ==
    << <<>>,
       [name |-> NameUpperA],
       [name |-> Empty, date |-> NotADate],
       [date |-> Date2023, location |-> LocW, description |-> DescB, tags |-> <<>>] >>

FsCreateEvent(arg, saveOk) ==
    LET event_data == FsCreateInputs[arg]
        event == FsNewEvent(nextUuid,
                            Get(event_data, "name", <<>>),
                            Get(event_data, "date", <<>>),
                            Get(event_data, "location", <<>>),
                            Get(event_data, "description", <<>>),
                            Get(event_data, "tags", <<>>),
                            now)
        errors == FsValidate(event)
    IN  /\ variant = "file"
        /\ nextUuid <= MaxIds
        /\ IF errors # <<>>
           THEN /\ fsRet' = [op |-> "create", id |-> 0, arg |-> arg,
                             ok |-> FALSE, errors |-> errors]
                /\ UNCHANGED <<events, file, nextUuid>>
           ELSE IF CreateDuplicate(event)
           THEN /\ fsRet' = [op |-> "create", id |-> 0, arg |-> arg, ok |-> FALSE,
                             errors |-> <<"An event with this name already exists">>]
                /\ UNCHANGED <<events, file, nextUuid>>
           ELSE /\ events' = Append(events, event)
                /\ nextUuid' = nextUuid + 1
                /\ file' = Saved(events', saveOk)
                /\ fsRet' = IF saveOk
                            THEN [op |-> "create", id |-> event.id, arg |-> arg,
                                  ok |-> TRUE, errors |-> <<>>]
                            ELSE [op |-> "create", id |-> 0, arg |-> arg,
                                  ok |-> FALSE, errors |-> <<"Failed to create event">>]
        /\ UNCHANGED <<variant, now, updates, relVars, qVars>>

FsGetEvent(event_id) ==
    /\ variant = "file"
    /\ fsRet' = [op |-> "get", id |-> event_id,
                 found |-> FsHas(event_id),
                 value |-> IF FsHas(event_id) THEN events[FsIndex(event_id)] ELSE None]
    /\ UNCHANGED <<variant, now, events, file, nextUuid, updates, relVars, qVars>>

FsUpdateEvent(event_id, arg, saveOk) ==
    /\ variant = "file"
    /\ IF ~FsHas(event_id)
       THEN /\ fsRet' = [op |-> "update", id |-> event_id,
                         ok |-> FALSE, errors |-> <<"Event not found">>]
            /\ UNCHANGED <<events, file, updates>>
       ELSE LET i == FsIndex(event_id)
                event_data == FsUpdateInputs[arg]
                event == FsEventUpdate(events[i], UpdateFields(event_data), now)
                errors == FsValidate(event)
            IN  \* event is the object held by the dict: it is updated in place
                /\ updates < MaxUpdates
                /\ updates' = updates + 1
                /\ events' = [events EXCEPT ![i] = event]
                /\ IF errors # <<>>
                   THEN /\ fsRet' = [op |-> "update", id |-> event_id, arg |-> arg,
                                     ok |-> FALSE, errors |-> errors]
                        /\ UNCHANGED file
                   ELSE IF UpdateDuplicate(events', event_id, event)
                   THEN /\ fsRet' = [op |-> "update", id |-> event_id,
                                     arg |-> arg, ok |-> FALSE,
                                     errors |-> <<"An event with this name already exists">>]
                        /\ UNCHANGED file
                   ELSE /\ file' = Saved(events', saveOk)
                        /\ fsRet' = IF saveOk
                                    THEN [op |-> "update", id |-> event_id,
                                          arg |-> arg, ok |-> TRUE,
                                          errors |-> <<>>]
                                    ELSE [op |-> "update", id |-> event_id,
                                          arg |-> arg, ok |-> FALSE,
                                          errors |-> <<"Failed to update event">>]
    /\ UNCHANGED <<variant, now, nextUuid, relVars, qVars>>

\* del self.events[event_id], as a mutant would do it: nothing is removed
WithoutNothing(evs, event_id) == evs

\* del self.events[event_id]
Without(evs, event_id) ==
    SelectIdx(evs, {i \in 1..Len(evs) : evs[i].id # event_id}, 1)

FsDeleteEvent(event_id, saveOk) ==
    /\ variant = "file"
    /\ IF ~FsHas(event_id)
       THEN /\ fsRet' = [op |-> "delete", id |-> event_id, ok |-> FALSE]
            /\ UNCHANGED <<events, file>>
       ELSE /\ events' = Without(events, event_id)
            /\ file' = Saved(events', saveOk)
            /\ fsRet' = [op |-> "delete", id |-> event_id, ok |-> saveOk]
    /\ UNCHANGED <<variant, now, nextUuid, updates, relVars, qVars>>

\* get_all_events over the store evs.
get_all_events(evs, search, sort_by, sort_order, tag_filter) ==
    sort_events(filter_events(search_events(evs, search), tag_filter), sort_by, sort_order)

FsGetAllEvents(search, sort_by, sort_order, tag_filter) ==
    /\ variant = "file"
    /\ fsRet' = [op |-> "list", search |-> search, sort_by |-> sort_by,
                 sort_order |-> sort_order, tag_filter |-> tag_filter,
                 value |-> get_all_events(events, search, sort_by, sort_order, tag_filter)]
    /\ UNCHANGED <<variant, now, events, file, nextUuid, updates, relVars, qVars>>

\* set(): the tags of all events of evs.
AllTags(evs) == UNION {{evs[i].tags[k] : k \in 1..Len(evs[i].tags)} : i \in 1..Len(evs)}

\* sorted(list(tags))
SortedTags(tags) ==
    [p \in 1..Cardinality(tags) |->
        CHOOSE t \in tags : Cardinality({u \in tags : StrLess(u, t)}) = p - 1]

get_stats(evs) ==
    [total_events |-> Len(evs),
     unique_tags |-> Cardinality(AllTags(evs)),
     all_tags |-> SortedTags(AllTags(evs))]

FsGetStats ==
    /\ variant = "file"
    /\ fsRet' = [op |-> "stats", value |-> get_stats(events)]
    /\ UNCHANGED <<variant, now, events, file, nextUuid, updates, relVars, qVars>>

\* Time passes between calls.
Tick ==
    /\ variant \in {"file", "relational"}
    /\ now < MaxClock
    /\ now' = now + 1
    /\ UNCHANGED <<variant, fsVars, updates, relVars, qVars>>

(***************************************************************************)
(* models.py: the Event row of the relational variant.  The tags of a      *)
(* request are a list (JSON) or a str (form): [list |-> BOOLEAN, v |-> _]. *)
(***************************************************************************)
RelNameMax == 200

TagList(v) == [list |-> TRUE, v |-> v]
TagStr(v) == [list |-> FALSE, v |-> v]

\* bool(tags) for a list or a str: non-empty
Truthy(tags) == tags.v # <<>>

\* ','.join(tags): over the items of a list, over the characters of a str
JoinTags(tags) ==
    IF tags.list THEN Join(<<",">>, tags.v) ELSE Join(<<",">>, CharsOf(tags.v))

\* datetime.isoformat(): the text of a timestamp
IsoFormat(t) == [iso |-> t]

\* Event.to_dict
to_dict(e) ==
    [id |-> e.id, name |-> e.name, date |-> e.date, location |-> e.location,
     description |-> e.description,
     tags |-> IF e.tags # <<>> THEN Split(e.tags, ",") ELSE <<>>,
     created_at |-> IF e.created_at # NoneInt THEN IsoFormat(e.created_at) ELSE None,
     updated_at |-> IF e.updated_at # NoneInt THEN IsoFormat(e.updated_at) ELSE None,
     user_id |-> e.user_id]

\* Event.from_dict(data, user_id): a new, unsaved Event; the id and the
\* timestamps of the dictionary are not read, so they stay None.
from_dict(data, user_id) ==
    [id |-> NoneInt, name |-> data.name, date |-> data.date, location |-> data.location,
     description |-> data.description,
     tags |-> Join(<<",">>, Get(data, "tags", <<>>)),
     created_at |-> NoneInt, updated_at |-> NoneInt,
     user_id |-> user_id]

\* update_from_dict with the two timestamps mixed up: the creation time is
\* refreshed and the update time is kept.
update_from_dict_created(e, data, t) ==
    [id |-> e.id,
     name |-> Get(data, "name", e.name),
     date |-> Get(data, "date", e.date),
     location |-> Get(data, "location", e.location),
     description |-> Get(data, "description", e.description),
     tags |-> IF "tags" \in DOMAIN data /\ Truthy(data.tags)
              THEN JoinTags(data.tags) ELSE e.tags,
     created_at |-> t,
     updated_at |-> e.updated_at,
     user_id |-> e.user_id]

\* Event.update_from_dict
update_from_dict(e, data, t) ==
    [id |-> e.id,
     name |-> Get(data, "name", e.name),
     date |-> Get(data, "date", e.date),
     location |-> Get(data, "location", e.location),
     description |-> Get(data, "description", e.description),
     tags |-> IF "tags" \in DOMAIN data /\ Truthy(data.tags)
              THEN JoinTags(data.tags) ELSE e.tags,
     created_at |-> e.created_at,
     updated_at |-> t,
     user_id |-> e.user_id]

\* Event.validate
validate(e) ==
    (IF Strip(e.name) = <<>> THEN <<"Event name is required">> ELSE <<>>)
    \o (IF Strip(e.date) = <<>> THEN <<"Event date is required">>
        ELSE IF ~FromIsoFormat(ReplaceZ(e.date)).ok THEN <<"Invalid date format">>
        ELSE <<>>)
    \o (IF Strip(e.location) = <<>> THEN <<"Event location is required">> ELSE <<>>)
    \o (IF Len(e.name) > RelNameMax
        THEN <<"Event name must be less than 200 characters">> ELSE <<>>)
    \o (IF Len(e.location) > LocationMax
        THEN <<"Location must be less than 200 characters">> ELSE <<>>)
    \o (IF e.description # <<>> /\ Len(e.description) > DescriptionMax
        THEN <<"Description must be less than 1000 characters">> ELSE <<>>)

(***************************************************************************)
(* routes.py: the event handlers.  current_user is the user parameter of   *)
(* each request (login_required: every request has one).                   *)
(***************************************************************************)
Users == {1, 2}

RelCreateInputs ==
    << [name |-> NameA, date |-> Date2024, location |-> LocW,
        description |-> Empty, tags |-> TagList(<<TagT>>)],
       [name |-> NameUpperA, date |-> DateZ2023, location |-> LocW,
        tags |-> TagStr(TagTA)],
       [name |-> Empty, date |-> Date2024, location |-> LocW],
       [name |-> NameB, date |-> Date2023] >>

RelUpdateInputs ==
    << <<>>,
       [name |-> NameUpperA],
       [tags |-> TagList(<<>>)],
       [name |-> Empty, description |-> DescB],
       [date |-> Date2023, location |-> LocW, tags |-> TagList(<<TagUpperT, TagTA>>)] >>

\* The lookup as a mutant would do it: by id alone
RelFindAnyUser(rows, event_id, user) == {r \in rows : r.id = event_id}

\* Event.query.filter_by(id=event_id, user_id=current_user.id).first()
RelFind(rows, event_id, user) == {r \in rows : r.id = event_id /\ r.user_id = user}

\* column.ilike('%term%')
ILike(column, term) == IsSubstr(Lower(term), Lower(column))

\* The list query as a mutant would do it: not restricted to the user
RelSelectAllUsers(rows, user, search, tag_filter) ==
    {r \in rows :
        /\ search # <<>> =>
              ILike(r.name, search) \/ ILike(r.location, search)
                  \/ ILike(r.description, search)
        /\ tag_filter # <<>> => ILike(r.tags, tag_filter)}

\* The rows the list query of dashboard / api_get_events selects.
RelSelect(rows, user, search, tag_filter) ==
    {r \in rows :
        /\ r.user_id = user
        /\ search # <<>> =>
              ILike(r.name, search) \/ ILike(r.location, search)
                  \/ ILike(r.description, search)
        /\ tag_filter # <<>> => ILike(r.tags, tag_filter)}

\* The column order_by sorts on.
OrderColumn(r, sort_by) ==
    CASE sort_by = "name" -> r.name
      [] sort_by = "location" -> r.location
      [] OTHER -> r.date

\* The orders query.all() may return the selected rows in: sorted on the
\* column (by code point), rows with equal values in any order.
RelOrdered(sel, sort_by, sort_order) ==
    LET n == Cardinality(sel)
    IN  {f \in [1..n -> sel] :
            /\ \A i, j \in 1..n : i # j => f[i] # f[j]
            /\ \A i, j \in 1..n : i < j =>
                  IF sort_order = StrDesc
                  THEN ~StrLess(OrderColumn(f[i], sort_by), OrderColumn(f[j], sort_by))
                  ELSE ~StrLess(OrderColumn(f[j], sort_by), OrderColumn(f[i], sort_by))}

\* create_event
CreateEvent(user, method, arg, commitOk) ==
    LET data == RelCreateInputs[arg]
    IN  /\ variant = "relational"
        /\ nextId <= MaxIds
        /\ IF method = "GET"
           THEN /\ relRet' = [op |-> "create", user |-> user, out |-> "form"]
                /\ UNCHANGED <<db, nextId>>
           ELSE IF ~({"name", "date", "location"} \subseteq DOMAIN data)
           THEN \* data['...'] raises KeyError: rollback
                /\ relRet' = [op |-> "create", user |-> user, arg |-> arg,
                              out |-> "failed"]
                /\ UNCHANGED <<db, nextId>>
           ELSE LET tags == Get(data, "tags", TagStr(<<>>))
                    event == [id |-> nextId, name |-> data.name, date |-> data.date,
                              location |-> data.location,
                              description |-> Get(data, "description", <<>>),
                              tags |-> IF tags.list THEN Join(<<",">>, tags.v)
                                       ELSE tags.v,
                              created_at |-> now, updated_at |-> now,
                              user_id |-> user]
                    errors == validate(event)
                IN  IF errors # <<>>
                    THEN /\ relRet' = [op |-> "create", user |-> user, arg |-> arg,
                                       out |-> "invalid", errors |-> errors]
                         /\ UNCHANGED <<db, nextId>>
                    ELSE IF commitOk
                    THEN /\ db' = db \cup {event}
                         /\ nextId' = nextId + 1
                         /\ relRet' = [op |-> "create", user |-> user, arg |-> arg,
                                       out |-> "ok", id |-> event.id]
                    ELSE /\ relRet' = [op |-> "create", user |-> user, arg |-> arg,
                                       out |-> "failed"]
                         /\ UNCHANGED <<db, nextId>>
        /\ UNCHANGED <<variant, now, fsVars, updates, qVars>>

\* The end of a request whose handler neither committed nor rolled back: the
\* session is removed with the request, the row old it had changed into
\* event is discarded with it.
SessionRemove(rows, old, event) == rows

\* A rollback that leaves the changed row behind.
RollbackKeepsChange(rows, old, event) == (rows \ {old}) \cup {event}

\* db.session.rollback() after a failed commit of the row old changed into
\* event: the change is dropped.
Rollback(rows, old, event) == rows

\* edit_event
EditEvent(user, event_id, method, arg, commitOk) ==
    LET found == RelFind(db, event_id, user)
        data == RelUpdateInputs[arg]
    IN  /\ variant = "relational"
        /\ IF found = {}
           THEN /\ relRet' = [op |-> "edit", user |-> user, id |-> event_id,
                              out |-> "notfound"]
                /\ UNCHANGED <<db, updates>>
           ELSE LET old == CHOOSE r \in found : TRUE
                    event == update_from_dict(old, data, now)
                    errors == validate(event)
                IN  IF method = "GET"
                    THEN /\ relRet' = [op |-> "edit", user |-> user, id |-> event_id,
                                       out |-> "form", value |-> to_dict(old)]
                         /\ UNCHANGED <<db, updates>>
                    ELSE IF errors # <<>>
                    THEN \* nothing is committed; the session ends with the request
                         /\ relRet' = [op |-> "edit", user |-> user, id |-> event_id,
                                       arg |-> arg, out |-> "invalid", errors |-> errors]
                         /\ db' = SessionRemove(db, old, event)
                         /\ UNCHANGED updates
                    ELSE IF commitOk
                    THEN /\ updates < MaxUpdates
                         /\ updates' = updates + 1
                         /\ db' = (db \ {old}) \cup {event}
                         /\ relRet' = [op |-> "edit", user |-> user, id |-> event_id,
                                       arg |-> arg, out |-> "ok", value |-> to_dict(event)]
                    ELSE /\ relRet' = [op |-> "edit", user |-> user, id |-> event_id,
                                       arg |-> arg, out |-> "failed"]
                         /\ db' = Rollback(db, old, event)
                         /\ UNCHANGED updates
        /\ UNCHANGED <<variant, now, fsVars, nextId, qVars>>

\* delete_event
DeleteEvent(user, event_id, commitOk) ==
    LET found == RelFind(db, event_id, user)
    IN  /\ variant = "relational"
        /\ IF found = {}
           THEN /\ relRet' = [op |-> "delete", user |-> user, id |-> event_id,
                              out |-> "notfound"]
                /\ UNCHANGED db
           ELSE IF commitOk
           THEN /\ db' = db \ found
                /\ relRet' = [op |-> "delete", user |-> user, id |-> event_id,
                              out |-> "ok"]
           ELSE /\ relRet' = [op |-> "delete", user |-> user, id |-> event_id,
                              out |-> "failed"]
                /\ UNCHANGED db
        /\ UNCHANGED <<variant, now, fsVars, updates, nextId, qVars>>

\* The events of a list response: to_dict of each row, in the order returned.
ListValue(f) == [i \in 1..Len(f) |-> to_dict(f[i])]

\* dashboard
Dashboard(user, search, sort_by, sort_order, tag_filter) ==
    /\ variant = "relational"
    /\ \E f \in RelOrdered(RelSelect(db, user, Strip(search), Strip(tag_filter)),
                           sort_by, sort_order) :
          relRet' = [op |-> "dashboard", user |-> user, search |-> search,
                     sort_by |-> sort_by, sort_order |-> sort_order,
                     tag_filter |-> tag_filter, out |-> "ok", value |-> ListValue(f)]
    /\ UNCHANGED <<variant, now, fsVars, updates, db, nextId, qVars>>

\* api_get_events
ApiGetEvents(user, search, sort_by, sort_order, tag_filter, dbOk) ==
    /\ variant = "relational"
    /\ IF dbOk
       THEN \E f \in RelOrdered(RelSelect(db, user, Strip(search), Strip(tag_filter)),
                                sort_by, sort_order) :
               relRet' = [op |-> "list", user |-> user, search |-> search,
                          sort_by |-> sort_by, sort_order |-> sort_order,
                          tag_filter |-> tag_filter, out |-> "ok",
                          value |-> ListValue(f)]
       ELSE relRet' = [op |-> "list", user |-> user, out |-> "failed"]
    /\ UNCHANGED <<variant, now, fsVars, updates, db, nextId, qVars>>

\* api_get_event
ApiGetEvent(user, event_id, dbOk) ==
    LET found == RelFind(db, event_id, user)
    IN  /\ variant = "relational"
        /\ relRet' = IF ~dbOk
                     THEN [op |-> "get", user |-> user, id |-> event_id,
                           out |-> "failed"]
                     ELSE IF found = {}
                     THEN [op |-> "get", user |-> user, id |-> event_id,
                           out |-> "notfound"]
                     ELSE [op |-> "get", user |-> user, id |-> event_id, out |-> "ok",
                           value |-> to_dict(CHOOSE r \in found : TRUE)]
        /\ UNCHANGED <<variant, now, fsVars, updates, db, nextId, qVars>>

(***************************************************************************)
(* The application: one of the two variants, selected by configuration,    *)
(* starts with an empty store and serves any calls.                        *)
(***************************************************************************)
Init ==
    /\ variant \in {"file", "relational"}
    /\ now = 0
    /\ events = <<>>
    /\ file = <<>>
    /\ nextUuid = 1
    /\ fsRet = NoCall
    /\ updates = 0
    /\ db = {}
    /\ nextId = 1
    /\ relRet = NoCall
    /\ qEvents = <<>>
    /\ qRet = NoCall

FsIds == 1..MaxIds
RelIds == 1..MaxIds

\* The arguments of the list calls: search, sort_by, sort_order, tag_filter.
FsListArgs ==
    << <<None, "date", StrAsc, None>>,
       <<NameUpperA, "name", StrDesc, TagUpperT>> >>

RelListArgs ==
    << <<TagT, "date", StrAsc, Empty>>,
       <<NameUpperA, "name", StrDesc, TagUpperT>> >>

\* Whether the write (save_events, db.session.commit) or the query of a call
\* succeeds.
Outcomes == {TRUE, FALSE}

Next ==
    \/ Tick
    \/ \E i \in 1..Len(FsCreateInputs), saveOk \in Outcomes : FsCreateEvent(i, saveOk)
    \/ \E id \in FsIds : FsGetEvent(id)
    \/ \E id \in FsIds, i \in 1..Len(FsUpdateInputs), saveOk \in Outcomes :
          FsUpdateEvent(id, i, saveOk)
    \/ \E id \in FsIds, saveOk \in Outcomes : FsDeleteEvent(id, saveOk)
    \/ \E i \in 1..Len(FsListArgs) :
          FsGetAllEvents(FsListArgs[i][1], FsListArgs[i][2], FsListArgs[i][3],
                         FsListArgs[i][4])
    \/ FsGetStats
    \/ \E u \in Users : CreateEvent(u, "GET", 1, TRUE)
    \/ \E u \in Users, i \in 1..Len(RelCreateInputs), commitOk \in Outcomes :
          CreateEvent(u, "POST", i, commitOk)
    \/ \E u \in Users, id \in RelIds : EditEvent(u, id, "GET", 1, TRUE)
    \/ \E u \in Users, id \in RelIds, i \in 1..Len(RelUpdateInputs),
          commitOk \in Outcomes : EditEvent(u, id, "POST", i, commitOk)
    \/ \E u \in Users, id \in RelIds, commitOk \in Outcomes : DeleteEvent(u, id, commitOk)
    \/ \E u \in Users : Dashboard(u, Empty, "date", StrDesc, Empty)
    \/ \E u \in Users, i \in 1..Len(RelListArgs) :
          ApiGetEvents(u, RelListArgs[i][1], RelListArgs[i][2], RelListArgs[i][3],
                       RelListArgs[i][4], TRUE)
    \/ \E u \in Users : ApiGetEvents(u, Empty, "date", StrAsc, Empty, FALSE)
    \/ \E u \in Users, id \in RelIds, dbOk \in Outcomes : ApiGetEvent(u, id, dbOk)

Spec == Init /\ [][Next]_vars

(***************************************************************************)
(* The pure functions (utils.py, Event.to_dict / Event.from_dict) applied  *)
(* to bounded inputs.                                                      *)
(***************************************************************************)
SpaceB == <<" ", "b">>
TermZ == <<"z">>
NameUpperB == <<"B">>

\* The events the lists handed to the query functions are made of.
QPool ==
    << FsEventUpdate(FsNewEvent(1, NameA, Date2024, LocW, Empty, <<TagUpperT>>, 0),
                     <<>>, 0),
       FsEventUpdate(FsNewEvent(2, NameB, DateZ2023, LocW, Empty, <<>>, 0), <<>>, 1),
       FsEventUpdate(FsNewEvent(3, NameUpperA, NotADate, LocW, DescB, <<TagT, TagTA>>, 1),
                     <<>>, 1),
       FsEventUpdate(FsNewEvent(4, NameB, DateTime2024, LocW, Empty, <<TagTA>>, 0),
                     <<>>, 0),
       FsEventUpdate(FsNewEvent(5, NameUpperB, Date2024, LocW, Empty, <<>>, 1), <<>>, 1) >>

\* The lists of at most MaxQuery distinct events of the pool.
QLists ==
    UNION {{[i \in 1..n |-> QPool[f[i]]] :
               f \in {g \in [1..n -> 1..Len(QPool)] :
                         \A i, j \in 1..n : i # j => g[i] # g[j]}} :
           n \in 0..MaxQuery}

\* The rows handed to to_dict / from_dict.
QRows ==
    {[id |-> id, name |-> NameA, date |-> Date2024, location |-> LocW,
      description |-> DescB, tags |-> tags, created_at |-> 0, updated_at |-> 1,
      user_id |-> 1] :
        id \in 1..MaxIds, tags \in {Empty, TagT, <<"t", ",", "a">>}}

QSearchTerms == <<None, Empty, TagT, NameUpperA, SpaceB, TermZ>>
QTagFilters == <<None, Empty, TagUpperT, TagTA>>
QSortKeys == {"date", "name", "location", "created_at", "updated_at"}
QSortOrders == {StrAsc, StrDesc}

InitQuery ==
    /\ variant = "query"
    /\ now = 0
    /\ events = <<>>
    /\ file = <<>>
    /\ nextUuid = 1
    /\ fsRet = NoCall
    /\ updates = 0
    /\ db = {}
    /\ nextId = 1
    /\ relRet = NoCall
    /\ qEvents \in QLists
    /\ qRet = NoCall

SearchEvents(search_term) ==
    /\ qRet' = [op |-> "search", term |-> search_term,
                value |-> search_events(qEvents, search_term)]
    /\ UNCHANGED <<variant, now, fsVars, updates, relVars, qEvents>>

FilterEvents(tag_filter) ==
    /\ qRet' = [op |-> "filter", tag |-> tag_filter,
                value |-> filter_events(qEvents, tag_filter)]
    /\ UNCHANGED <<variant, now, fsVars, updates, relVars, qEvents>>

SortEvents(sort_by, sort_order) ==
    /\ qRet' = [op |-> "sort", sort_by |-> sort_by, sort_order |-> sort_order,
                value |-> sort_events(qEvents, sort_by, sort_order)]
    /\ UNCHANGED <<variant, now, fsVars, updates, relVars, qEvents>>

\* Event.from_dict(event.to_dict(), event.user_id)
RoundTrip(event) ==
    /\ qRet' = [op |-> "roundtrip", event |-> event,
                value |-> from_dict(to_dict(event), event.user_id)]
    /\ UNCHANGED <<variant, now, fsVars, updates, relVars, qEvents>>

NextQuery ==
    \/ \E i \in 1..Len(QSearchTerms) : SearchEvents(QSearchTerms[i])
    \/ \E i \in 1..Len(QTagFilters) : FilterEvents(QTagFilters[i])
    \/ \E sort_by \in QSortKeys, sort_order \in QSortOrders :
          SortEvents(sort_by, sort_order)
    \/ \E event \in QRows : RoundTrip(event)

SpecQuery == InitQuery /\ [][NextQuery]_vars

(***************************************************************************)
(* The start of the file store: the DataManager is constructed, the data   *)
(* file is missing, unreadable as JSON, or holds the records of an earlier *)
(* run; initialize_storage is called once, before any other call.          *)
(***************************************************************************)
\* The data file when there is none, and when its content is not the JSON
\* of a store.
FileMissing == <<[kind |-> "missing"]>>
FileCorrupt == <<[kind |-> "corrupt"]>>

\* The data files a run can start with.
StorageFiles ==
    {FileMissing, FileCorrupt, <<>>,
     <<FsNewEvent(1, NameB, Date2024, LocW, Empty, <<TagT>>, 0)>>}

\* load_events with every exception caught and logged, as a corrupt file
\* that is taken for the store.
load_events_unchecked(f) == f

\* load_events over the data file f: the store it leaves in self.events.
\* Every exception (no file, no JSON, no dictionary of event records) is
\* caught and leaves the empty store.
load_events(f) ==
    IF f = FileMissing \/ f = FileCorrupt THEN <<>> ELSE f

\* initialize_storage over the store evs and the data file f; saveOk tells
\* whether the write of save_events succeeds.  The exception of a failed
\* write is caught: the store is emptied and nothing is raised.
initialize_storage(evs, f, saveOk) ==
    IF f # FileMissing
    THEN [events |-> load_events(f), file |-> f, raised |-> FALSE]
    ELSE IF saveOk
    THEN [events |-> evs, file |-> evs, raised |-> FALSE]
    ELSE [events |-> <<>>, file |-> f, raised |-> FALSE]

InitStorage ==
    /\ variant = "storage"
    /\ now = 0
    /\ events = <<>>
    /\ file \in StorageFiles
    /\ nextUuid = IF file \in {FileMissing, FileCorrupt} THEN 1 ELSE Len(file) + 1
    /\ fsRet = NoCall
    /\ updates = 0
    /\ db = {}
    /\ nextId = 1
    /\ relRet = NoCall
    /\ qEvents = <<>>
    /\ qRet = NoCall

InitializeStorage(saveOk) ==
    LET r == initialize_storage(events, file, saveOk)
    IN  /\ variant = "storage"
        /\ variant' = "file"
        /\ events' = r.events
        /\ file' = r.file
        /\ fsRet' = [op |-> "initialize", raised |-> r.raised,
                     existed |-> file # FileMissing,
                     saved |-> (file = FileMissing /\ saveOk)]
        /\ UNCHANGED <<now, nextUuid, updates, relVars, qVars>>

NextStorage ==
    \/ \E saveOk \in Outcomes : InitializeStorage(saveOk)
    \/ Tick
    \/ \E i \in 1..Len(FsCreateInputs), saveOk \in Outcomes : FsCreateEvent(i, saveOk)
    \/ \E id \in FsIds : FsGetEvent(id)
    \/ \E id \in FsIds, i \in 1..Len(FsUpdateInputs), saveOk \in Outcomes :
          FsUpdateEvent(id, i, saveOk)
    \/ \E id \in FsIds, saveOk \in Outcomes : FsDeleteEvent(id, saveOk)
    \/ \E i \in 1..Len(FsListArgs) :
          FsGetAllEvents(FsListArgs[i][1], FsListArgs[i][2], FsListArgs[i][3],
                         FsListArgs[i][4])
    \/ FsGetStats

SpecStorage == InitStorage /\ [][NextStorage]_vars

(***************************************************************************)
(* Validation (Event.validate, validate_event_data) applied to bounded     *)
(* events.                                                                 *)
(***************************************************************************)
\* validate_event_data over the dictionary data.
validate_event_data(data) ==
    (IF Strip(Get(data, "name", <<>>)) = <<>> THEN <<"Name is required">> ELSE <<>>)
    \o (IF Strip(Get(data, "date", <<>>)) = <<>> THEN <<"Date is required">> ELSE <<>>)
    \o (IF Strip(Get(data, "location", <<>>)) = <<>>
        THEN <<"Location is required">> ELSE <<>>)
    \o (IF Get(data, "date", <<>>) # <<>> /\ ~FromIsoFormat(ReplaceZ(data.date)).ok
        THEN <<"Invalid date format">> ELSE <<>>)
    \o (IF Len(Get(data, "name", <<>>)) > FsNameMax
        THEN <<"Event name must be less than 100 characters">> ELSE <<>>)
    \o (IF Len(Get(data, "location", <<>>)) > LocationMax
        THEN <<"Location must be less than 200 characters">> ELSE <<>>)
    \o (IF Len(Get(data, "description", <<>>)) > DescriptionMax
        THEN <<"Description must be less than 1000 characters">> ELSE <<>>)

\* A str of n characters.
Long(n) == [i \in 1..n |-> "a"]

Space == <<" ">>
DateSpace2024 ==
    <<"2", "0", "2", "4", "-", "0", "3", "-", "0", "1", " ",
      "1", "0", ":", "0", "0", ":", "0", "0">>
DateOffset2024 ==
    <<"2", "0", "2", "4", "-", "0", "3", "-", "0", "1", "T",
      "1", "0", ":", "0", "0", ":", "0", "0", "-", "0", "5", ":", "0", "0">>
DateMonth13 == <<"2", "0", "2", "4", "-", "1", "3", "-", "0", "1">>
DateFeb29 == <<"2", "0", "2", "3", "-", "0", "2", "-", "2", "9">>
DatePadded == <<" ">> \o Date2024

VNames == {NameA, Empty, Space, Long(RelNameMax), Long(RelNameMax + 1)}
VDates == {Date2024, DateTime2024, DateZ2023, DateOffset2024, DateSpace2024,
           DateMonth13, DateFeb29, DatePadded, NotADate, Empty, Space}
VLocations == {LocW, Empty, Space, Long(LocationMax), Long(LocationMax + 1)}
VDescriptions == {Empty, DescB, Long(DescriptionMax), Long(DescriptionMax + 1)}

\* The events handed to validate: rows of user 1.
VEvents ==
    {[id |-> 1, name |-> name, date |-> date, location |-> location,
      description |-> description, tags |-> Empty, created_at |-> 0,
      updated_at |-> 0, user_id |-> 1] :
        name \in VNames, date \in VDates, location \in VLocations,
        description \in VDescriptions}

InitValidate ==
    /\ variant = "validate"
    /\ now = 0
    /\ events = <<>>
    /\ file = <<>>
    /\ nextUuid = 1
    /\ fsRet = NoCall
    /\ updates = 0
    /\ db = {}
    /\ nextId = 1
    /\ relRet = NoCall
    /\ qEvents \in {<<e>> : e \in VEvents}
    /\ qRet = NoCall

\* event.validate()
Validate ==
    /\ qRet' = [op |-> "validate", value |-> validate(qEvents[1])]
    /\ UNCHANGED <<variant, now, fsVars, updates, relVars, qEvents>>

\* validate_event_data(data) on the fields of the event
ValidateEventData ==
    /\ qRet' = [op |-> "validate_event_data", value |-> validate_event_data(qEvents[1])]
    /\ UNCHANGED <<variant, now, fsVars, updates, relVars, qEvents>>

NextValidate ==
    \/ Validate
    \/ ValidateEventData

SpecValidate == InitValidate /\ [][NextValidate]_vars

(***************************************************************************)
(* Properties.  A step of a call is recognised by the record it leaves in  *)
(* fsRet / relRet (Tick is the only step that changes now).                *)
(***************************************************************************)
FsStep(op) == variant = "file" /\ now' = now /\ fsRet'.op = op
RelStep(op) == variant = "relational" /\ now' = now /\ relRet'.op = op

DuplicateMessage == <<"An event with this name already exists">>

\* C1: in the file store no two distinct stored events have names that are
\* equal ignoring case, after any calls, rejected ones included.
C1_NoCaseInsensitiveDuplicates ==
    variant = "file" =>
        \A i, j \in 1..Len(events) :
            i # j => Lower(events[i].name) # Lower(events[j].name)

\* C2: in each variant, creating a valid event whose name differs only in
\* letter case from an event of the same scope is rejected with the
\* duplicate-name error and the scope does not grow.
C2_CaseDuplicateCreateRejected ==
    [][/\ (/\ FsStep("create")
           /\ LET data == FsCreateInputs[fsRet'.arg]
              IN  /\ Strip(data.name) # <<>>
                  /\ FromIsoFormat(ReplaceZ(data.date)).ok
                  /\ Strip(data.location) # <<>>
                  /\ \E i \in 1..Len(events) :
                        /\ events[i].name # data.name
                        /\ Lower(events[i].name) = Lower(data.name))
          => (fsRet'.errors = DuplicateMessage /\ Len(events') = Len(events))
       /\ (/\ RelStep("create")
           /\ relRet'.out \in {"ok", "invalid", "duplicate"}
           /\ LET data == RelCreateInputs[relRet'.arg]
              IN  /\ Strip(data.name) # <<>>
                  /\ FromIsoFormat(ReplaceZ(data.date)).ok
                  /\ Strip(data.location) # <<>>
                  /\ \E r \in db :
                        /\ r.user_id = relRet'.user
                        /\ r.name # data.name
                        /\ Lower(r.name) = Lower(data.name))
          => (/\ relRet'.out = "duplicate"
              /\ Cardinality({r \in db' : r.user_id = relRet'.user})
                    = Cardinality({r \in db : r.user_id = relRet'.user}))
      ]_vars

\* C3: an update of an id that is not in the caller's scope yields exactly
\* the not-found outcome, whatever the fields, and changes no stored event.
C3_UpdateOfMissingIdIsNotFound ==
    [][/\ (FsStep("update") /\ \A i \in 1..Len(events) : events[i].id # fsRet'.id)
          => (/\ fsRet'.ok = FALSE
              /\ fsRet'.errors = <<"Event not found">>
              /\ events' = events
              /\ file' = file)
       /\ (/\ RelStep("edit")
           /\ \A r \in db : ~(r.id = relRet'.id /\ r.user_id = relRet'.user))
          => (relRet'.out = "notfound" /\ db' = db)
      ]_vars

\* C3 witness: an update of a missing id was answered while the store holds events.
C3_Witness ==
    /\ fsRet.op = "update"
    /\ fsRet.errors = <<"Event not found">>
    /\ Len(events) > 0
    /\ \A i \in 1..Len(events) : events[i].id # fsRet.id

\* The tags of the events of a store.
TagsIn(evs) == {t \in UNION {{evs[i].tags[k] : k \in 1..Len(evs[i].tags)} :
                                i \in 1..Len(evs)} : TRUE}

\* C4: after a successful delete the event is not found by its id, is in no
\* list result, the stats count is one lower, each of its tags has left the
\* stats tags unless a remaining event carries it, and the other events are
\* unchanged.
C4_DeleteRemovesEvent ==
    [][/\ (FsStep("delete") /\ fsRet'.ok)
          => LET id == fsRet'.id
                 gone == {i \in 1..Len(events) : events[i].id = id}
                 statTags == {get_stats(events').all_tags[k] :
                                 k \in 1..Len(get_stats(events').all_tags)}
             IN  /\ gone # {}
                 /\ \A i \in 1..Len(events') : events'[i].id # id
                 /\ \A a \in 1..Len(FsListArgs) :
                       LET l == get_all_events(events', FsListArgs[a][1], FsListArgs[a][2],
                                               FsListArgs[a][3], FsListArgs[a][4])
                       IN  \A k \in 1..Len(l) : l[k].id # id
                 /\ get_stats(events').total_events = get_stats(events).total_events - 1
                 /\ \A i \in gone : \A k \in 1..Len(events[i].tags) :
                       (events[i].tags[k] \in statTags)
                           <=> (\E j \in 1..Len(events) :
                                   /\ events[j].id # id
                                   /\ \E m \in 1..Len(events[j].tags) :
                                         events[j].tags[m] = events[i].tags[k])
                 /\ \A i \in 1..Len(events) :
                       events[i].id # id
                           => \E j \in 1..Len(events') : events'[j] = events[i]
                 /\ Len(events') = Len(events) - 1
       /\ (RelStep("delete") /\ relRet'.out = "ok")
          => LET id == relRet'.id
             IN  /\ \E r \in db : r.id = id /\ r.user_id = relRet'.user
                 /\ \A r \in db' : r.id # id
                 /\ \A r \in db : r.id # id => r \in db'
                 /\ db' \subseteq db
                 /\ \A a \in 1..Len(RelListArgs) :
                       \A f \in RelOrdered(RelSelect(db', relRet'.user, RelListArgs[a][1],
                                                     RelListArgs[a][4]),
                                           RelListArgs[a][2], RelListArgs[a][3]) :
                          \A k \in 1..Len(f) : f[k].id # id
      ]_vars

\* C4 witness: an event that shared a tag with a remaining event was deleted.
C4_Witness ==
    /\ fsRet.op = "delete"
    /\ fsRet.ok
    /\ Len(events) = 1
    /\ file = events
    /\ TagT \in TagsIn(events)

\* C5: in the relational variant every request sees and changes only the
\* events of its user: list and read results hold only events of the user
\* and are those selected among the user's own rows, and edit and delete
\* leave the rows of other users alone and answer not-found for their ids.
C5_RequestsAreScopedToTheUser ==
    [][variant = "relational" /\ now' = now =>
        LET u == relRet'.user
            own == {r \in db : r.user_id = u}
        IN  /\ (relRet'.op \in {"list", "dashboard"} /\ relRet'.out = "ok")
               => LET search == Strip(relRet'.search)
                      tag == Strip(relRet'.tag_filter)
                      expected ==
                          {to_dict(r) : r \in
                              {x \in own :
                                  /\ search # <<>> =>
                                        \/ IsSubstr(Lower(search), Lower(x.name))
                                        \/ IsSubstr(Lower(search), Lower(x.location))
                                        \/ IsSubstr(Lower(search), Lower(x.description))
                                  /\ tag # <<>> => IsSubstr(Lower(tag), Lower(x.tags))}}
                  IN  /\ \A k \in 1..Len(relRet'.value) : relRet'.value[k].user_id = u
                      /\ {relRet'.value[k] : k \in 1..Len(relRet'.value)} = expected
                      /\ Len(relRet'.value) = Cardinality(expected)
            /\ (relRet'.op = "get" /\ relRet'.out = "ok")
               => relRet'.value \in {to_dict(r) : r \in {x \in own : x.id = relRet'.id}}
            /\ (relRet'.op = "get" /\ relRet'.out = "notfound")
               => \A r \in own : r.id # relRet'.id
            /\ relRet'.op \in {"create", "edit", "delete", "list", "dashboard", "get"}
               => /\ \A r \in db : r.user_id # u => r \in db'
                  /\ \A r \in db' : r.user_id # u => r \in db
            /\ (/\ relRet'.op \in {"edit", "delete"}
                /\ \E r \in db : r.id = relRet'.id /\ r.user_id # u)
               => relRet'.out = "notfound"
      ]_vars

\* C5 witness: a user asked to edit an event that another user owns.
C5_Witness ==
    /\ relRet.op = "edit"
    /\ relRet.out = "notfound"
    /\ \E r \in db : r.id = relRet.id /\ r.user_id # relRet.user

\* C6: to_dict followed by from_dict gives back an event with the same id,
\* name, date, location, description, tag sequence, created_at and updated_at.
C6_RoundTripGivesEqualEvent ==
    qRet.op = "roundtrip" =>
        LET e == qRet.event
            r == qRet.value
        IN  /\ r.id = e.id
            /\ r.name = e.name
            /\ r.date = e.date
            /\ r.location = e.location
            /\ r.description = e.description
            /\ to_dict(r).tags = to_dict(e).tags
            /\ r.created_at = e.created_at
            /\ r.updated_at = e.updated_at

\* C7: a partial update gives every supplied field the supplied value (an
\* empty tag list included), keeps every other field, never changes the id or
\* the owner, and refreshes updated_at.
C7_PartialUpdateAppliesSuppliedKeys ==
    [][/\ (FsStep("update") /\ fsRet'.ok)
          => LET data == FsUpdateInputs[fsRet'.arg]
                 i == CHOOSE k \in 1..Len(events) : events[k].id = fsRet'.id
                 old == events[i]
                 new == events'[i]
             IN  /\ new.id = old.id
                 /\ new.name = Get(data, "name", old.name)
                 /\ new.date = Get(data, "date", old.date)
                 /\ new.location = Get(data, "location", old.location)
                 /\ new.description = Get(data, "description", old.description)
                 /\ new.tags = Get(data, "tags", old.tags)
                 /\ new.created_at = old.created_at
                 /\ new.updated_at = now
       /\ (RelStep("edit") /\ relRet'.out = "ok")
          => LET data == RelUpdateInputs[relRet'.arg]
                 old == CHOOSE r \in db : r.id = relRet'.id
                 new == CHOOSE r \in db' : r.id = relRet'.id
             IN  /\ Cardinality({r \in db' : r.id = relRet'.id}) = 1
                 /\ new.name = Get(data, "name", old.name)
                 /\ new.date = Get(data, "date", old.date)
                 /\ new.location = Get(data, "location", old.location)
                 /\ new.description = Get(data, "description", old.description)
                 /\ to_dict(new).tags = IF "tags" \in DOMAIN data THEN data.tags.v
                                        ELSE to_dict(old).tags
                 /\ new.user_id = old.user_id
                 /\ new.created_at = old.created_at
                 /\ new.updated_at = now
      ]_vars

\* The datetime a date string stands for (date-only, date-time, date-time
\* with Z), when it has one.
Parsed(e) == FromIsoFormat(ReplaceZ(e.date))

\* C8: sort_events by 'date' returns a permutation of the input; ascending,
\* the events whose date does not parse come first and the others follow in
\* ascending chronological order; descending, the order is the reverse one.
C8_DateSortIsChronological ==
    (qRet.op = "sort" /\ qRet.sort_by = "date") =>
        LET out == qRet.value
            n == Len(out)
        IN  /\ n = Len(qEvents)
            /\ {out[k] : k \in 1..n} = {qEvents[k] : k \in 1..n}
            /\ \A i, j \in 1..n : i < j =>
                  LET a == IF qRet.sort_order = StrAsc THEN out[i] ELSE out[j]
                      b == IF qRet.sort_order = StrAsc THEN out[j] ELSE out[i]
                  IN  /\ ~Parsed(b).ok => ~Parsed(a).ok
                      /\ (Parsed(a).ok /\ Parsed(b).ok)
                            => ~TimeLess(Parsed(b), Parsed(a))

\* The items of s at the indices of keep, in order.
ItemsAt(s, keep) ==
    [k \in 1..Cardinality(keep) |->
        s[CHOOSE i \in keep : Cardinality({j \in keep : j < i}) = k - 1]]

\* name, location, description and the tags joined by spaces, lowercased.
LoweredFields(e) ==
    Lower(e.name \o <<" ">> \o e.location \o <<" ">> \o e.description \o <<" ">>
          \o Join(<<" ">>, e.tags))

\* C9 as stated: search_events returns, in input order, exactly the events whose
\* lowercased fields contain the lowercased term; an empty or absent term
\* returns the input.
C9_SearchMatchesLoweredTerm ==
    qRet.op = "search" =>
        IF qRet.term = None \/ qRet.term = <<>> THEN qRet.value = qEvents
        ELSE qRet.value =
                ItemsAt(qEvents,
                        {i \in 1..Len(qEvents) :
                            IsSubstr(Lower(qRet.term), LoweredFields(qEvents[i]))})

\* C9 as amended: search_events returns, in input order, exactly the events
\* whose lowercased fields contain the lowercased term stripped of its leading
\* and trailing whitespace; an empty or absent term returns the input.
C9_SearchMatchesStrippedLoweredTerm ==
    qRet.op = "search" =>
        IF qRet.term = None \/ qRet.term = <<>> THEN qRet.value = qEvents
        ELSE qRet.value =
                ItemsAt(qEvents,
                        {i \in 1..Len(qEvents) :
                            IsSubstr(Strip(Lower(qRet.term)), LoweredFields(qEvents[i]))})

\* C9 witness: a term found only inside a tag written in another case
\* returned that event and left another one out.
C9_Witness ==
    /\ qRet.op = "search"
    /\ qRet.term = TagT
    /\ Len(qRet.value) < Len(qEvents)
    /\ \E k \in 1..Len(qRet.value) :
          /\ qRet.value[k].tags = <<TagUpperT>>
          /\ ~IsSubstr(TagT, Lower(qRet.value[k].name \o <<" ">> \o qRet.value[k].location
                                   \o <<" ">> \o qRet.value[k].description))

\* The rows of a user in insertion order, as the events of a file store.
RECURSIVE RowsById(_)
RowsById(rows) ==
    IF rows = {} THEN <<>>
    ELSE LET r == CHOOSE x \in rows : \A y \in rows : x.id <= y.id
         IN  <<to_dict(r)>> \o RowsById(rows \ {r})

\* C10: for the same events of one user and the same search term, tag filter,
\* sort key and direction, the relational list returns the same events in the
\* same order as get_all_events of the file store.
C10_ListContractIsShared ==
    (relRet.op = "list" /\ relRet.out = "ok") =>
        LET expected == get_all_events(RowsById({r \in db : r.user_id = relRet.user}),
                                       relRet.search, relRet.sort_by, relRet.sort_order,
                                       relRet.tag_filter)
        IN  [k \in 1..Len(relRet.value) |-> relRet.value[k].id]
                = [k \in 1..Len(expected) |-> expected[k].id]

\* A blank str: empty or made of whitespace only.
Blank(s) == \A i \in 1..Len(s) : s[i] = " "

\* An ISO-8601 calendar date YYYY-MM-DD, or such a date followed by T and a
\* time HH:MM:SS, itself followed by nothing, by Z or by an offset +HH:MM or
\* -HH:MM.
Iso8601(s) ==
    /\ Len(s) \in {10, 19, 20, 25}
    /\ DateOrdinal(s) # 0
    /\ Len(s) >= 19 => (s[11] = "T" /\ TimeSeconds(s, 12) >= 0)
    /\ Len(s) = 20 => s[20] = "Z"
    /\ Len(s) = 25 => OffsetSeconds(s, 20) # 90000

\* The messages of the rules an event of the relational variant breaks.
RulesBroken(e) ==
    (IF Blank(e.name) THEN {"Event name is required"} ELSE {})
    \cup (IF Blank(e.date) THEN {"Event date is required"} ELSE {})
    \cup (IF ~Blank(e.date) /\ ~Iso8601(e.date) THEN {"Invalid date format"} ELSE {})
    \cup (IF Blank(e.location) THEN {"Event location is required"} ELSE {})
    \cup (IF Len(e.name) > 200
          THEN {"Event name must be less than 200 characters"} ELSE {})
    \cup (IF Len(e.location) > 200
          THEN {"Location must be less than 200 characters"} ELSE {})
    \cup (IF Len(e.description) > 1000
          THEN {"Description must be less than 1000 characters"} ELSE {})

\* C11: Event.validate returns the empty list for an event that breaks no
\* rule (name, date and location not blank, the date an ISO-8601 date or
\* date-time, name, location and description within their length bounds),
\* and for an event that breaks exactly one rule it returns exactly the
\* message of that rule.
C11_ValidateReportsExactlyTheBrokenRule ==
    qRet.op = "validate" =>
        LET broken == RulesBroken(qEvents[1])
        IN  /\ broken = {} => qRet.value = <<>>
            /\ Cardinality(broken) = 1 => qRet.value = <<CHOOSE m \in broken : TRUE>>

\* C12: in every reachable state of either store, every stored event has
\* updated_at >= created_at (the clock never goes back).
C12_UpdatedNotBeforeCreated ==
    /\ \A i \in 1..Len(events) : events[i].updated_at >= events[i].created_at
    /\ \A r \in db : r.updated_at >= r.created_at

\* C12 witness: a committed edit made after the clock moved on: the row's
\* update time is later than its creation time.
C12_Witness ==
    /\ relRet.op = "edit"
    /\ relRet.out = "ok"
    /\ \E r \in db : r.id = relRet.id /\ r.updated_at > r.created_at

\* An error response of edit_event: the validation errors or the failure.
EditRejected(ret) == ret.op = "edit" /\ ret.out \in {"invalid", "failed"}

InitializeStep == variant = "storage" /\ fsRet'.op = "initialize"

\* What C14 says of every call but the creation of the file: nothing is
\* raised, a missing or a corrupt file leaves the empty store, and the calls
\* that follow work on the store: a create that succeeds appends its event
\* and writes the whole store over whatever the file held.
InitializeLeavesUsableStore ==
    /\ InitializeStep =>
          /\ ~fsRet'.raised
          /\ file \in {FileMissing, FileCorrupt} => events' = <<>>
          /\ file = FileCorrupt => file' = FileCorrupt
    /\ (FsStep("create") /\ fsRet'.ok) =>
          /\ Len(events') = Len(events) + 1
          /\ file' = events'
    /\ (FsStep("get") /\ events = <<>>) => ~fsRet'.found
    /\ (FsStep("update") /\ events = <<>>) => fsRet'.errors = <<"Event not found">>
    /\ (FsStep("delete") /\ events = <<>>) => ~fsRet'.ok

FsFailedMutation ==
    \/ (FsStep("create") \/ FsStep("update")) /\ fsRet'.errors # <<>>
    \/ FsStep("delete") /\ ~fsRet'.ok

\* C15: a DataManager mutation that reports failure (validation error,
\* duplicate name, unknown id, failed save, delete returning False) leaves
\* the in-memory store as it was: the same ids with the same field values.
C15_FailedMutationLeavesStore ==
    [][FsFailedMutation => events' = events]_vars

\* The records f of the data file are accepted state: each passes
\* validation and no two have case-insensitively equal names.
FileAccepted(f) ==
    /\ \A i \in 1..Len(f) : FsValidate(f[i]) = <<>>
    /\ \A i, j \in 1..Len(f) : i # j => Lower(f[i].name) # Lower(f[j].name)

\* C16: in the file store the data file only ever holds accepted state: its
\* records pass validation, no two have case-insensitively equal names, and
\* an update that is rejected writes nothing (so that neither that call nor
\* a later successful one puts the rejected change into the file).
C16_FileHoldsAcceptedState ==
    [][variant = "file" =>
          /\ FileAccepted(file')
          /\ (FsStep("update") /\ fsRet'.errors # <<>>
                 /\ fsRet'.errors # <<"Failed to update event">>) => file' = file]_vars

=============================================================================
